---- MODULE Spec2Model ----
(***************************************************************************)
(* Model of two scripts of the repository:                                 *)
(*   download_kegg_pathways_db.py  - the KEGG HTML pathway extractor       *)
(*   kegg_paths_plot.py            - the KEGG merge-and-plot script        *)
(*                                                                         *)
(* Strings are sequences of one-character strings, so that strip(),        *)
(* split(), the f-string formatting and zfill() are computed.              *)
(* A parsed document is the pre-order sequence of its elements, each with  *)
(* its nesting depth; document order is the order of the indices.          *)
(***************************************************************************)
EXTENDS Integers, Sequences, FiniteSets, TLC

VARIABLES doc, phase, ci, bi, data, origin, csv,
          kpc, files, kegg_db, me_1_kegg, merged_df, err, shown, saved

vars == <<doc, phase, ci, bi, data, origin, csv,
          kpc, files, kegg_db, me_1_kegg, merged_df, err, shown, saved>>

extractorVars == <<doc, phase, ci, bi, data, origin, csv>>
keggVars == <<kpc, files, kegg_db, me_1_kegg, merged_df, err, shown, saved>>

\* ------------------------------------------------------------------ bounds
MaxItems == 3      \* children of the definition list, term family
MaxTop == 2        \* elements before the top-level container, structure family
MaxMid == 2        \* elements inside the top-level container, structure family
MaxRows == 2       \* rows of each input table of the plot script

\* ------------------------------------------------------------- generic
Max(S) == CHOOSE x \in S : \A y \in S : y <= x
Min(S) == CHOOSE x \in S : \A y \in S : x <= y

RECURSIVE SortedSeq(_)
\* the elements of a finite set of integers, ascending
SortedSeq(S) == IF S = {} THEN <<>> ELSE <<Min(S)>> \o SortedSeq(S \ {Min(S)})

RECURSIVE Concat(_)
\* concatenation of a sequence of sequences
Concat(ss) == IF ss = <<>> THEN <<>> ELSE Head(ss) \o Concat(Tail(ss))

SeqsUpTo(S, n) == UNION {[1..k -> S] : k \in 0..n}

\* ------------------------------------------------------------- strings
Whitespace == {" ", "\n"}

RECURSIVE lstrip(_)
lstrip(s) == IF s # <<>> /\ Head(s) \in Whitespace THEN lstrip(Tail(s)) ELSE s

RECURSIVE rstrip(_)
rstrip(s) ==
    IF s # <<>> /\ s[Len(s)] \in Whitespace THEN rstrip(SubSeq(s, 1, Len(s) - 1)) ELSE s

\* str.strip()
strip(s) == rstrip(lstrip(s))

\* index of the first ' ' of s, 0 when there is none
FirstSpace(s) ==
    IF \E i \in 1..Len(s) : s[i] = " " THEN Min({i \in 1..Len(s) : s[i] = " "}) ELSE 0

\* s.split(' ', 1)[-1]
SplitLast(s) == IF FirstSpace(s) = 0 THEN s ELSE SubSeq(s, FirstSpace(s) + 1, Len(s))

\* text.strip().split(' ', 1)[-1].strip()
NameOf(s) == strip(SplitLast(strip(s)))

\* the closing space left out
FormatID_NoSpace(id_code) == <<">">> \o id_code \o <<"<">>

\* f'>{id_code} <'
FormatID(id_code) == <<">">> \o id_code \o <<" ", "<">>

\* ------------------------------------------------------------- documents
Node(tag, depth, cls, text) == [tag |-> tag, depth |-> depth, cls |-> cls, text |-> text]

\* parent of element i (0 is the document itself)
Parent(d, i) ==
    IF d[i].depth = 0 THEN 0 ELSE Max({j \in 1..(i - 1) : d[j].depth < d[i].depth})

\* j is inside element i (every element is inside the document, i = 0)
IsDescendant(d, i, j) ==
    /\ j \in 1..Len(d)
    /\ j > i
    /\ i # 0 => \A k \in (i + 1)..j : d[k].depth > d[i].depth

\* tag.find_all(name): the descendants with that tag, in document order
find_all(d, i, name) ==
    SortedSeq({j \in 1..Len(d) : IsDescendant(d, i, j) /\ d[j].tag = name})

\* tag.find_next(name): the first such element after i, inside it or not
find_Next(d, i, name) ==
    IF {j \in (i + 1)..Len(d) : d[j].tag = name} = {} THEN 0
    ELSE Min({j \in (i + 1)..Len(d) : d[j].tag = name})

\* tag.find(name): the first such descendant, 0 for None
find(d, i, name) == IF find_all(d, i, name) = <<>> THEN 0 ELSE find_all(d, i, name)[1]

NextSiblings(d, i, name) ==
    {j \in (i + 1)..Len(d) : Parent(d, j) = Parent(d, i) /\ d[j].tag = name}

\* tag.find_next_sibling(name): the first later sibling with that tag, 0 for None
find_next_sibling(d, i, name) ==
    IF NextSiblings(d, i, name) = {} THEN 0 ELSE Min(NextSiblings(d, i, name))

\* tag.find_next_sibling('div', class_='list')
find_next_sibling_list(d, i) ==
    IF {j \in NextSiblings(d, i, "div") : "list" \in d[j].cls} = {} THEN 0
    ELSE Min({j \in NextSiblings(d, i, "div") : "list" \in d[j].cls})

\* tag.text: the element's own text followed by the text of what it holds
text(d, i) ==
    Concat([k \in 1..Len(d) |->
              IF k = i \/ IsDescendant(d, i, k) THEN d[k].text ELSE <<>>])

\* ------------------------------------------------------------- extractor
\* the record of one term: dict literal of extract_pathways, with where it came from
Entry(d, category_name, subcategory_name, id_code, a_tag, pass, heading, label, dl, dt, dd_tag) ==
    [rec |-> [Category |-> category_name,
              SubCategory |-> subcategory_name,
              PathwayID |-> FormatID(id_code),
              PathwayName |-> strip(text(d, a_tag))],
     src |-> [pass |-> pass, heading |-> heading, label |-> label,
              dl |-> dl, dt |-> dt, dd |-> dd_tag]]

\* the length test applied to the text before it is trimmed
TermEntries_RawLen(d, dl, dt, category_name, subcategory_name, pass, heading, label) ==
    LET id_code == strip(text(d, dt))
        dd_tag == find_next_sibling(d, dt, "dd")
        a_tag == IF dd_tag = 0 THEN 0 ELSE find(d, dd_tag, "a")
    IN  IF id_code # <<>> /\ Len(text(d, dt)) >= 5 /\ dd_tag # 0 /\ a_tag # 0
        THEN <<Entry(d, category_name, subcategory_name, id_code, a_tag,
                     pass, heading, label, dl, dt, dd_tag)>>
        ELSE <<>>

\* body of "for dt in dl.find_all('dt')": the entries appended for one term
TermEntries(d, dl, dt, category_name, subcategory_name, pass, heading, label) ==
    LET id_code == strip(text(d, dt))
        dd_tag == find_next_sibling(d, dt, "dd")
        a_tag == IF dd_tag = 0 THEN 0 ELSE find(d, dd_tag, "a")
    IN  IF id_code # <<>> /\ Len(id_code) >= 5 /\ dd_tag # 0 /\ a_tag # 0
        THEN <<Entry(d, category_name, subcategory_name, id_code, a_tag,
                     pass, heading, label, dl, dt, dd_tag)>>
        ELSE <<>>

\* extract_pathways(dl_elements, category_name, subcategory_name)
extract_pathways(d, dl_elements, category_name, subcategory_name, pass, heading, label) ==
    Concat([x \in 1..Len(dl_elements) |->
        LET dl == dl_elements[x]
            dts == find_all(d, dl, "dt")
        IN  Concat([y \in 1..Len(dts) |->
                TermEntries(d, dl, dts[y], category_name, subcategory_name,
                            pass, heading, label)])])

\* the label's name taken without the final strip()
ProcessLabel_NoStrip(d, b_tag, category_name, pass, heading) ==
    LET subcategory_name == SplitLast(strip(text(d, b_tag)))
        subcategory_dl == find_next_sibling_list(d, b_tag)
    IN  IF subcategory_dl # 0
        THEN extract_pathways(d, find_all(d, subcategory_dl, "dl"),
                              category_name, subcategory_name, pass, heading, b_tag)
        ELSE <<>>

\* one bold label: its name, its container, the definition lists inside
ProcessLabel(d, b_tag, category_name, pass, heading) ==
    LET subcategory_name == NameOf(text(d, b_tag))
        subcategory_dl == find_next_sibling_list(d, b_tag)
    IN  IF subcategory_dl # 0
        THEN extract_pathways(d, find_all(d, subcategory_dl, "dl"),
                              category_name, subcategory_name, pass, heading, b_tag)
        ELSE <<>>

\* soup.find_all('h4')
categories(d) == find_all(d, 0, "h4")

\* the bold labels the category pass visits for one heading
CategoryLabels(d, category) ==
    LET subcategories == find_next_sibling_list(d, category)
    IN  IF subcategories # 0 THEN find_all(d, subcategories, "b") ELSE <<>>

\* body of "for category in categories"
CategoryEntries(d, category) ==
    LET category_name == NameOf(text(d, category))
        bs == CategoryLabels(d, category)
    IN  Concat([x \in 1..Len(bs) |-> ProcessLabel(d, bs[x], category_name, "category", category)])

\* soup.find_all('b', recursive=False): top-level labels only
additional_sections_TopLevel(d) ==
    SortedSeq({j \in 1..Len(d) : d[j].tag = "b" /\ d[j].depth = 0})

\* soup.find_all('b')
additional_sections(d) == find_all(d, 0, "b")

\* body of "for b_tag in additional_sections"
AdditionalEntries(d, b_tag) == ProcessLabel(d, b_tag, <<"N", "/", "A">>, "additional", 0)

Recs(es) == [x \in 1..Len(es) |-> es[x].rec]
Srcs(es) == [x \in 1..Len(es) |-> es[x].src]

CategoryIter ==
    /\ phase = "categories"
    /\ ci <= Len(categories(doc))
    /\ LET es == CategoryEntries(doc, categories(doc)[ci])
       IN  data' = data \o Recs(es) /\ origin' = origin \o Srcs(es)
    /\ ci' = ci + 1
    /\ UNCHANGED <<doc, phase, bi, csv>>
    /\ UNCHANGED keggVars

\* the category loop is exhausted; line 71 collects the bold labels
CategoriesDone ==
    /\ phase = "categories"
    /\ ci > Len(categories(doc))
    /\ phase' = "additional"
    /\ UNCHANGED <<doc, ci, bi, data, origin, csv>>
    /\ UNCHANGED keggVars

AdditionalIter ==
    /\ phase = "additional"
    /\ bi <= Len(additional_sections(doc))
    /\ LET es == AdditionalEntries(doc, additional_sections(doc)[bi])
       IN  data' = data \o Recs(es) /\ origin' = origin \o Srcs(es)
    /\ bi' = bi + 1
    /\ UNCHANGED <<doc, phase, ci, csv>>
    /\ UNCHANGED keggVars

\* pd.DataFrame(data).to_csv('kegg_pathways.csv')
SaveCsv ==
    /\ phase = "additional"
    /\ bi > Len(additional_sections(doc))
    /\ csv' = [written |-> TRUE, rows |-> data]
    /\ phase' = "done"
    /\ UNCHANGED <<doc, ci, bi, data, origin>>
    /\ UNCHANGED keggVars

\* ------------------------------------------------------------- input documents
T0001 == <<"T", "0", "0", "0", "1">>
ABC123 == <<"A", "B", "C", "1", "2", "3">>
ABC == <<"A", "B", "C">>
PadT1 == <<" ", "T", "1", " ", "\n">>
PadT0001 == <<"\n", "T", "0", "0", "0", "1", " ">>
ExamplePathway ==
    <<"E", "x", "a", "m", "p", "l", "e", " ", "P", "a", "t", "h", "w", "a", "y">>
OtherLink == <<" ", "M", "a", "p", "\n">>
Cat1Text == <<"1", ".", " ", "M", "e", "t", "a", "b">>
Cat2Text == <<"G", "e", "n", "e", "t", "i", "c">>
Sub0Text == <<"0", " ", " ", "T", "o", "p">>
Sub1Text == <<"1", ".", "0", " ", "G", "l", "o", "b", "a", "l", " ", "m", "a", "p", "s", "\n">>
NA == <<"N", "/", "A">>

TermKinds == {"T0001", "ABC123", "ABC", "PadT1", "PadT0001"}
ItemKinds == TermKinds \cup {"dd", "ddA", "ddAA"}

TermText(k) ==
    CASE k = "T0001" -> T0001
      [] k = "ABC123" -> ABC123
      [] k = "ABC" -> ABC
      [] k = "PadT1" -> PadT1
      [] k = "PadT0001" -> PadT0001

\* the elements of one child of a definition list, at nesting depth n
ItemNodes(k, n) ==
    CASE k \in TermKinds -> <<Node("dt", n, {}, TermText(k))>>
      [] k = "dd" -> <<Node("dd", n, {}, <<>>)>>
      [] k = "ddA" -> <<Node("dd", n, {}, <<>>), Node("a", n + 1, {}, ExamplePathway)>>
      [] k = "ddAA" -> <<Node("dd", n, {}, <<>>), Node("a", n + 1, {}, OtherLink),
                         Node("a", n + 1, {}, ExamplePathway)>>

\* h4, its container, one bold label, its container, one definition list
WellFormedPrefix ==
    <<Node("h4", 0, {}, Cat1Text), Node("div", 0, {"list"}, <<>>),
      Node("b", 1, {}, Sub1Text), Node("div", 1, {"list"}, <<>>),
      Node("dl", 2, {}, <<>>)>>

TermDoc(items) ==
    WellFormedPrefix \o Concat([x \in 1..Len(items) |-> ItemNodes(items[x], 3)])

TermDocs == {TermDoc(items) : items \in SeqsUpTo(ItemKinds, MaxItems)}

\* a definition list nested in a definition of another one
NestedDocs ==
    {WellFormedPrefix \o
       <<Node("dt", 3, {}, T0001), Node("dd", 3, {}, <<>>), Node("a", 4, {}, ExamplePathway),
         Node("dl", 4, {}, <<>>)>> \o ItemNodes(k1, 5) \o ItemNodes(k2, 5) \o ItemNodes(k3, 3)
       : k1 \in {"ABC123", "ABC"}, k2 \in {"dd", "ddA"}, k3 \in {"PadT0001", "ddAA"}}

TopKinds == {"h4a", "h4b", "b0"}
MidKinds == {"b1", "leaf", "other"}

MidNodes(k) ==
    CASE k = "b1" -> <<Node("b", 1, {}, Sub1Text)>>
      [] k = "leaf" -> <<Node("div", 1, {"list", "sub"}, <<>>), Node("dl", 2, {}, <<>>),
                         Node("dt", 3, {}, T0001), Node("dd", 3, {}, <<>>),
                         Node("a", 4, {}, ExamplePathway),
                         Node("dt", 3, {}, PadT0001), Node("dd", 3, {}, <<>>),
                         Node("a", 4, {}, OtherLink)>>
      [] k = "other" -> <<Node("div", 1, {"other"}, <<>>), Node("dl", 2, {}, <<>>),
                          Node("dt", 3, {}, ABC123), Node("dd", 3, {}, <<>>),
                          Node("a", 4, {}, OtherLink)>>

TopNodes(k) ==
    CASE k = "h4a" -> <<Node("h4", 0, {}, Cat1Text)>>
      [] k = "h4b" -> <<Node("h4", 0, {}, Cat2Text)>>
      [] k = "b0" -> <<Node("b", 0, {}, Sub0Text)>>

\* headings and labels, then one list container holding labels and containers
StructDoc(top, mid) ==
    Concat([x \in 1..Len(top) |-> TopNodes(top[x])])
    \o <<Node("div", 0, {"list"}, <<>>)>>
    \o Concat([x \in 1..Len(mid) |-> MidNodes(mid[x])])

StructDocs ==
    {StructDoc(top, mid) : top \in SeqsUpTo(TopKinds, MaxTop), mid \in SeqsUpTo(MidKinds, MaxMid)}

Docs == TermDocs \cup NestedDocs \cup StructDocs

\* ------------------------------------------------------------- specification
KeggIdle ==
    /\ kpc = "idle"
    /\ files = <<>>
    /\ kegg_db = <<>>
    /\ me_1_kegg = <<>>
    /\ merged_df = <<>>
    /\ err = "none"
    /\ shown = FALSE
    /\ saved = FALSE

Init ==
    /\ doc \in Docs
    /\ phase = "categories"
    /\ ci = 1
    /\ bi = 1
    /\ data = <<>>
    /\ origin = <<>>
    /\ csv = [written |-> FALSE, rows |-> <<>>]
    /\ KeggIdle

Next == CategoryIter \/ CategoriesDone \/ AdditionalIter \/ SaveCsv

Spec == Init /\ [][Next]_vars

\* ------------------------------------------------------------- plot script
Digits == {"0", "1", "2", "3", "4", "5", "6", "7", "8", "9"}

DigitVal(c) ==
    CASE c = "0" -> 0 [] c = "1" -> 1 [] c = "2" -> 2 [] c = "3" -> 3 [] c = "4" -> 4
      [] c = "5" -> 5 [] c = "6" -> 6 [] c = "7" -> 7 [] c = "8" -> 8 [] c = "9" -> 9

DigitChar(n) == CHOOSE c \in Digits : DigitVal(c) = n

IsInteger(s) == s # <<>> /\ \A i \in 1..Len(s) : s[i] \in Digits

RECURSIVE ParseInt(_)
\* the integer a cell of digits is read as
ParseInt(s) == IF s = <<>> THEN 0 ELSE 10 * ParseInt(SubSeq(s, 1, Len(s) - 1)) + DigitVal(s[Len(s)])

RECURSIVE IntToStr(_)
\* str(n) of a non-negative integer
IntToStr(n) == IF n < 10 THEN <<DigitChar(n)>> ELSE IntToStr(n \div 10) \o <<DigitChar(n % 10)>>

\* pd.read_csv of the 'Pathway ID' column: a column of integers only is
\* parsed as int64, any other column keeps its cells as strings
ReadIdColumn(rows) ==
    IF rows # <<>> /\ \A i \in 1..Len(rows) : IsInteger(rows[i].PathwayID)
    THEN [dtype |-> "int64",
          rows |-> [i \in 1..Len(rows) |->
                      [rows[i] EXCEPT !.PathwayID = ParseInt(rows[i].PathwayID)]]]
    ELSE [dtype |-> "object", rows |-> rows]

RECURSIVE RemoveKo(_)
\* re.sub('ko', '', s)
RemoveKo(s) ==
    IF Len(s) < 2 THEN s
    ELSE IF s[1] = "k" /\ s[2] = "o" THEN RemoveKo(SubSeq(s, 3, Len(s)))
    ELSE <<s[1]>> \o RemoveKo(Tail(s))

\* Series.replace('ko', '', regex=True): only strings are rewritten
ReplaceKo(df) ==
    IF df.dtype = "int64" THEN df
    ELSE [df EXCEPT !.rows = [i \in 1..Len(df.rows) |->
              [df.rows[i] EXCEPT !.PathwayID = RemoveKo(df.rows[i].PathwayID)]]]

\* str.zfill(width)
zfill(s, width) == IF Len(s) >= width THEN s ELSE [i \in 1..(width - Len(s)) |-> "0"] \o s

\* Series.astype(str).str.zfill(5)
AsTypeStrZfill(df) ==
    [dtype |-> "object",
     rows |-> [i \in 1..Len(df.rows) |->
                 [df.rows[i] EXCEPT !.PathwayID =
                     zfill(IF df.dtype = "int64" THEN IntToStr(df.rows[i].PathwayID)
                           ELSE df.rows[i].PathwayID, 5)]]]

\* pd.merge(df1, df2, on='Pathway ID', how='inner') and the column selection:
\* left order, and for each left row its matches in right order
Merge(df1, df2) ==
    Concat([i \in 1..Len(df1.rows) |->
        Concat([j \in 1..Len(df2.rows) |->
            IF df1.rows[i].PathwayID = df2.rows[j].PathwayID
            THEN <<[Category |-> df2.rows[j].Category,
                    SubCategory |-> df2.rows[j].SubCategory,
                    Pathway |-> df2.rows[j].Pathway,
                    PathwayID |-> df1.rows[i].PathwayID,
                    Seqs |-> df1.rows[i].Seqs]>>
            ELSE <<>>])])

RECURSIVE InsertDesc(_, _)
\* insert row r after the rows of sorted whose count is not smaller
InsertDesc(sorted, r) ==
    IF sorted = <<>> \/ Head(sorted).Seqs < r.Seqs THEN <<r>> \o sorted
    ELSE <<Head(sorted)>> \o InsertDesc(Tail(sorted), r)

RECURSIVE SortDesc(_, _)
SortDesc(done, rest) ==
    IF rest = <<>> THEN done ELSE SortDesc(InsertDesc(done, Head(rest)), Tail(rest))

\* the sort left out
sort_values_None(rows) == rows

\* sort_values(by='No. of Seqs', ascending=False)
sort_values(rows) == SortDesc(<<>>, rows)

NoDbMsg == "FileNotFoundError: [Errno 2] No such file or directory: 'kegg_pathways_db.csv'"
NoKeggMsg == "FileNotFoundError: [Errno 2] No such file or directory: 'me_1_kegg.csv'"
PrepareMsg == "FileNotFoundError: Error: Prepare the file 'me_1_kegg_selected.csv' in excel first."

Absent == [exists |-> FALSE, rows |-> <<>>]
Present(rows) == [exists |-> TRUE, rows |-> rows]

\* kegg_db = pd.read_csv('kegg_pathways_db.csv')
ReadDb ==
    /\ kpc = "read_db"
    /\ IF files.db.exists
       THEN /\ kegg_db' = ReadIdColumn(files.db.rows)
            /\ kpc' = "read_kegg"
            /\ err' = err
       ELSE /\ err' = NoDbMsg
            /\ kpc' = "ended"
            /\ kegg_db' = kegg_db
    /\ UNCHANGED <<files, me_1_kegg, merged_df, shown, saved>>
    /\ UNCHANGED extractorVars

\* me_1_kegg = pd.read_csv('me_1_kegg.csv')
ReadKegg ==
    /\ kpc = "read_kegg"
    /\ IF files.kegg.exists
       THEN /\ me_1_kegg' = ReadIdColumn(files.kegg.rows)
            /\ kpc' = "clean"
            /\ err' = err
       ELSE /\ err' = NoKeggMsg
            /\ kpc' = "ended"
            /\ me_1_kegg' = me_1_kegg
    /\ UNCHANGED <<files, kegg_db, merged_df, shown, saved>>
    /\ UNCHANGED extractorVars

\* remove 'ko' from the enrichment IDs and zero-pad them
CleanIds ==
    /\ kpc = "clean"
    /\ me_1_kegg' = AsTypeStrZfill(ReplaceKo(me_1_kegg))
    /\ kpc' = "merge"
    /\ UNCHANGED <<files, kegg_db, merged_df, err, shown, saved>>
    /\ UNCHANGED extractorVars

\* zero-pad the database IDs, merge, select, sort, write me_1_kegg_merged.csv
MergeSave ==
    /\ kpc = "merge"
    /\ kegg_db' = AsTypeStrZfill(kegg_db)
    /\ merged_df' = sort_values(Merge(me_1_kegg, AsTypeStrZfill(kegg_db)))
    /\ files' = [files EXCEPT !.merged =
                    Present(sort_values(Merge(me_1_kegg, AsTypeStrZfill(kegg_db))))]
    /\ kpc' = "load_selected"
    /\ UNCHANGED <<me_1_kegg, err, shown, saved>>
    /\ UNCHANGED extractorVars

\* the missing file swallowed and the script going on
LoadSelected_Continue ==
    /\ kpc = "load_selected"
    /\ kpc' = "plot"
    /\ UNCHANGED <<files, kegg_db, me_1_kegg, merged_df, err, shown, saved>>
    /\ UNCHANGED extractorVars

\* try: pd.read_csv('me_1_kegg_selected.csv') except FileNotFoundError: raise
LoadSelected ==
    /\ kpc = "load_selected"
    /\ IF files.selected.exists
       THEN kpc' = "plot" /\ err' = err
       ELSE kpc' = "ended" /\ err' = PrepareMsg
    /\ UNCHANGED <<files, kegg_db, me_1_kegg, merged_df, shown, saved>>
    /\ UNCHANGED extractorVars

\* nlargest, barplot, plt.show()
Plot ==
    /\ kpc = "plot"
    /\ shown' = TRUE
    /\ kpc' = "savefig"
    /\ UNCHANGED <<files, kegg_db, me_1_kegg, merged_df, err, saved>>
    /\ UNCHANGED extractorVars

\* plt.savefig('me_1_kegg_plot.png')
SaveFig ==
    /\ kpc = "savefig"
    /\ saved' = TRUE
    /\ files' = [files EXCEPT !.plot = Present(<<>>)]
    /\ kpc' = "ended"
    /\ UNCHANGED <<kegg_db, me_1_kegg, merged_df, err, shown>>
    /\ UNCHANGED extractorVars

\* ------------------------------------------------------------- input tables
Ko00010 == <<"k", "o", "0", "0", "0", "1", "0">>
Ko20 == <<"k", "o", "2", "0">>
Ten == <<"1", "0">>
Zero20 == <<"0", "0", "0", "2", "0">>

KeggCells == {Ko00010, Ko20, Ten}
DbCells == {Ten, Zero20, Ko00010}
SeqCounts == {1, 2}

KeggRows == {[PathwayID |-> c, Seqs |-> n] : c \in KeggCells, n \in SeqCounts}

DbRows ==
    {[PathwayID |-> c,
      Category |-> IF c = Zero20 THEN "Metabolism" ELSE "Cellular Processes",
      SubCategory |-> IF c = Ten THEN "Carbohydrate metabolism" ELSE "Overview",
      Pathway |-> IF c = Ko00010 THEN "Glycolysis" ELSE "Citrate cycle"] : c \in DbCells}

FileOf(Rows) == {Absent} \cup {Present(r) : r \in SeqsUpTo(Rows, MaxRows)}

ExtractorIdle ==
    /\ doc = <<>>
    /\ phase = "idle"
    /\ ci = 1
    /\ bi = 1
    /\ data = <<>>
    /\ origin = <<>>
    /\ csv = [written |-> FALSE, rows |-> <<>>]

InitKegg ==
    /\ kpc = "read_db"
    /\ files \in [db : FileOf(DbRows), kegg : FileOf(KeggRows),
                  selected : {Absent, Present(<<>>)}, merged : {Absent}, plot : {Absent}]
    /\ kegg_db = <<>>
    /\ me_1_kegg = <<>>
    /\ merged_df = <<>>
    /\ err = "none"
    /\ shown = FALSE
    /\ saved = FALSE
    /\ ExtractorIdle

NextKegg == ReadDb \/ ReadKegg \/ CleanIds \/ MergeSave \/ LoadSelected \/ Plot \/ SaveFig

SpecKegg == InitKegg /\ [][NextKegg]_vars

\* ------------------------------------------------------------- properties
Done == phase = "done"

\* the element right after i under the same parent, 0 when i is the last one
NextSibling(d, i) ==
    IF {j \in (i + 1)..Len(d) : Parent(d, j) = Parent(d, i)} = {} THEN 0
    ELSE Min({j \in (i + 1)..Len(d) : Parent(d, j) = Parent(d, i)})

IsListContainer(d, i) == i # 0 /\ d[i].tag = "div" /\ "list" \in d[i].cls

\* the definition of term t: the dd right after it, 0 when there is none
OwnDd(d, t) ==
    IF NextSibling(d, t) # 0 /\ d[NextSibling(d, t)].tag = "dd" THEN NextSibling(d, t) ELSE 0

Links(d, e) == {k \in 1..Len(d) : IsDescendant(d, e, k) /\ d[k].tag = "a"}
Terms(d) == {t \in 1..Len(d) : d[t].tag = "dt"}
Labels(d) == {b \in 1..Len(d) : d[b].tag = "b"}
Headings(d) == {h \in 1..Len(d) : d[h].tag = "h4"}

Wrapped(t) == <<">">> \o t \o <<" ", "<">>
Metab == <<"M", "e", "t", "a", "b">>
GlobalMaps == <<"G", "l", "o", "b", "a", "l", " ", "m", "a", "p", "s">>

\* the document shape of C1: one heading, its container, one label, its
\* container, one definition list of terms and definitions
C1Shape(d) ==
    /\ Len(d) >= 5
    /\ SubSeq(d, 1, 5) = WellFormedPrefix
    /\ \A k \in 6..Len(d) : /\ d[k].tag \in {"dt", "dd", "a"}
                            /\ d[k].tag \in {"dt", "dd"} => d[k].depth = 3

\* terms of at least 5 characters as written, with a linked definition
ValidRaw(d) ==
    {t \in Terms(d) : Len(text(d, t)) >= 5 /\ OwnDd(d, t) # 0 /\ Links(d, OwnDd(d, t)) # {}}

\* terms of at least 5 characters once trimmed, with a linked definition
ValidTrimmed(d) ==
    {t \in Terms(d) : Len(strip(text(d, t))) >= 5 /\ OwnDd(d, t) # 0
                      /\ Links(d, OwnDd(d, t)) # {}}

OneValidTermDoc == TermDoc(<<"T0001", "ddA">>)
TwoTermDoc == TermDoc(<<"ABC123", "ddA", "ABC">>)

RecordOf(cat, sub, id, name) ==
    [Category |-> cat, SubCategory |-> sub, PathwayID |-> id, PathwayName |-> name]

\* C1 as stated: in a document of the C1 shape the output holds exactly one
\* record per term of at least 5 characters with a linked definition, namely
\* {heading's name, label's name, '>' + term + ' <', link text}.
C1_Original ==
    (Done /\ C1Shape(doc)) =>
        /\ Len(data) = Cardinality(ValidRaw(doc))
        /\ \A t \in ValidRaw(doc) :
              \E i \in 1..Len(data) :
                 /\ origin[i].dt = t
                 /\ data[i] = RecordOf(Metab, GlobalMaps, Wrapped(text(doc, t)),
                                       strip(doc[Min(Links(doc, OwnDd(doc, t)))].text))

RecsOfTerm(t, pass) == {i \in 1..Len(data) : origin[i].dt = t /\ origin[i].pass = pass}

\* C1 amended: in a document of the C1 shape every term whose trimmed text has
\* at least 5 characters and whose own definition holds a link has exactly two
\* records in the output, one {heading's name, label's name, '>' + trimmed
\* term + ' <', first link's trimmed text} from the category pass and one with
\* Category 'N/A' and the same other fields from the second pass; the T0001
\* document gives exactly these two records and the ABC123/ABC document
\* exports exactly two rows, both '>ABC123 <'.
C1_Amended ==
    (Done /\ C1Shape(doc)) =>
        /\ \A t \in ValidTrimmed(doc) :
              LET name == strip(doc[Min(Links(doc, OwnDd(doc, t)))].text)
                  id == Wrapped(strip(text(doc, t)))
              IN  /\ Cardinality(RecsOfTerm(t, "category")) = 1
                  /\ Cardinality(RecsOfTerm(t, "additional")) = 1
                  /\ \A i \in RecsOfTerm(t, "category") :
                        data[i] = RecordOf(Metab, GlobalMaps, id, name)
                  /\ \A i \in RecsOfTerm(t, "additional") :
                        data[i] = RecordOf(NA, GlobalMaps, id, name)
        /\ doc = OneValidTermDoc =>
              data = <<RecordOf(Metab, GlobalMaps, <<">", "T", "0", "0", "0", "1", " ", "<">>,
                                ExamplePathway),
                       RecordOf(NA, GlobalMaps, <<">", "T", "0", "0", "0", "1", " ", "<">>,
                                ExamplePathway)>>
        /\ doc = TwoTermDoc =>
              /\ csv.written /\ Len(csv.rows) = 2
              /\ \A i \in 1..2 :
                    csv.rows[i].PathwayID = <<">", "A", "B", "C", "1", "2", "3", " ", "<">>

C1_Witness == Done /\ doc = TwoTermDoc /\ Len(csv.rows) = 2

\* the labels whose container yields a record: the first later sibling that is
\* a list container holds, inside a definition list, a term of at least 5
\* trimmed characters whose first later definition sibling holds a link
Productive(d, b) ==
    LET c == find_next_sibling_list(d, b)
    IN  /\ c # 0
        /\ \E t \in Terms(d) :
              /\ IsDescendant(d, c, t)
              /\ \E l \in 1..Len(d) : d[l].tag = "dl" /\ IsDescendant(d, c, l)
                                      /\ IsDescendant(d, l, t)
              /\ Len(strip(text(d, t))) >= 5
              /\ find_next_sibling(d, t, "dd") # 0
              /\ Links(d, find_next_sibling(d, t, "dd")) # {}

\* number of records of the category-scoped pass alone
CategoryCount(d) ==
    Len(Concat([x \in 1..Len(categories(d)) |-> CategoryEntries(d, categories(d)[x])]))

HasNARecord(b) ==
    \E i \in 1..Len(data) :
        data[i].Category = NA /\ data[i].SubCategory = NameOf(text(doc, b))

\* C2 as stated: after a full run every bold label of the document has at
\* least one record with Category 'N/A' and its name as SubCategory, and the
\* total count is at least the count of the category-scoped pass.
C2_Original ==
    Done => /\ \A b \in Labels(doc) : HasNARecord(b)
            /\ Len(data) >= CategoryCount(doc)

\* C2 amended: after a full run every bold label whose first later sibling list
\* container holds, in a definition list, a term of at least 5 trimmed
\* characters followed by a definition sibling with a link has at least one
\* record with Category 'N/A' and its name as SubCategory (a label with no such
\* container or term has none), and the total count is at least the count of
\* the category-scoped pass.
C2_Amended ==
    Done => /\ \A b \in Labels(doc) :
                  /\ Productive(doc, b) => HasNARecord(b)
                  /\ ~Productive(doc, b) =>
                        ~\E i \in 1..Len(data) :
                            origin[i].pass = "additional" /\ origin[i].label = b
            /\ Len(data) >= CategoryCount(doc)

C2_Witness ==
    /\ Done
    /\ \E b \in Labels(doc) : Productive(doc, b) /\ HasNARecord(b)
    /\ \E b \in Labels(doc) : ~Productive(doc, b)
    /\ Len(data) > CategoryCount(doc)

\* C3: within each pass records are appended in document order of their terms,
\* and every record of the category-scoped pass precedes every record of the
\* 'N/A' pass.
C3_Original ==
    \A i, j \in 1..Len(data) :
        i < j => /\ origin[i].pass = origin[j].pass => origin[i].dt <= origin[j].dt
                 /\ ~(origin[i].pass = "additional" /\ origin[j].pass = "category")

C5_NoLinkNoRecord ==
    \A i \in 1..Len(data) :
        ~(OwnDd(doc, origin[i].dt) # 0 /\ Links(doc, OwnDd(doc, origin[i].dt)) = {})

C5_Witness ==
    /\ Done
    /\ \E t \in Terms(doc) :
          /\ Len(strip(text(doc, t))) >= 5
          /\ OwnDd(doc, t) # 0 /\ Links(doc, OwnDd(doc, t)) = {}
          /\ \E e \in (t + 1)..Len(doc) :
                doc[e].tag = "dd" /\ Parent(doc, e) = Parent(doc, t) /\ Links(doc, e) # {}

\* C8: a heading (label) whose immediately following sibling is not a list
\* container contributes no categorized record (no record), and no list
\* container is attributed to more than one heading or more than one label.
C8_Original ==
    \A i \in 1..Len(data) :
        /\ origin[i].pass = "category" =>
              IsListContainer(doc, NextSibling(doc, origin[i].heading))
        /\ IsListContainer(doc, NextSibling(doc, origin[i].label))
        /\ \A j \in 1..Len(data) :
              /\ (origin[i].pass = "category" /\ origin[j].pass = "category"
                    /\ find_next_sibling_list(doc, origin[i].heading)
                         = find_next_sibling_list(doc, origin[j].heading))
                 => origin[i].heading = origin[j].heading
              /\ find_next_sibling_list(doc, origin[i].label)
                   = find_next_sibling_list(doc, origin[j].label)
                 => origin[i].label = origin[j].label

\* C9: the record of term T names the first link of the definition right
\* after T, a term with no definition of its own has no record, and within one
\* pass over one definition list a definition is used by at most one record.
C9_Original ==
    \A i \in 1..Len(data) :
        /\ OwnDd(doc, origin[i].dt) # 0
        /\ origin[i].dd = OwnDd(doc, origin[i].dt)
        /\ data[i].PathwayName = strip(doc[Min(Links(doc, origin[i].dd))].text)
        /\ \A j \in 1..Len(data) :
              (origin[j].pass = origin[i].pass /\ origin[j].heading = origin[i].heading
                 /\ origin[j].label = origin[i].label /\ origin[j].dl = origin[i].dl
                 /\ origin[j].dd = origin[i].dd) => origin[j].dt = origin[i].dt

\* C10: every record of the category-scoped pass has a twin in the final
\* output that differs only in Category = 'N/A'.
C10_Twin ==
    Done => \A i \in 1..Len(data) :
               origin[i].pass = "category" =>
                  \E j \in 1..Len(csv.rows) :
                     /\ origin[j].pass = "additional"
                     /\ csv.rows[j] = RecordOf(NA, data[i].SubCategory, data[i].PathwayID,
                                               data[i].PathwayName)

C10_Witness ==
    /\ Done
    /\ Cardinality(Headings(doc)) >= 2
    /\ \E i \in 1..Len(data) : origin[i].pass = "category" /\ data[i].Category # NA

\* the normalized IDs of the input cells, written out
NormKegg(c) ==
    CASE c = Ko00010 -> <<"0", "0", "0", "1", "0">>
      [] c = Ko20 -> <<"0", "0", "0", "2", "0">>
      [] c = Ten -> <<"0", "0", "0", "1", "0">>

NormDb(c) ==
    CASE c = Ten -> <<"0", "0", "0", "1", "0">>
      [] c = Zero20 -> <<"0", "0", "0", "2", "0">>
      [] c = Ko00010 -> Ko00010

MatchingPairs ==
    {p \in (1..Len(files.kegg.rows)) \X (1..Len(files.db.rows)) :
        NormKegg(files.kegg.rows[p[1]].PathwayID) = NormDb(files.db.rows[p[2]].PathwayID)}

ExpectedRow(p) ==
    [Category |-> files.db.rows[p[2]].Category,
     SubCategory |-> files.db.rows[p[2]].SubCategory,
     Pathway |-> files.db.rows[p[2]].Pathway,
     PathwayID |-> NormKegg(files.kegg.rows[p[1]].PathwayID),
     Seqs |-> files.kegg.rows[p[1]].Seqs]

\* C6: when me_1_kegg_selected.csv is missing the run ends in a
\* FileNotFoundError, which for a run that got to the curated file is the one
\* telling the user to prepare it in Excel; nothing is shown or saved, and the
\* merged CSV written earlier in the run stays as written.
C6_MissingSelected ==
    (kpc = "ended" /\ ~files.selected.exists) =>
        /\ err \in {NoDbMsg, NoKeggMsg, PrepareMsg}
        /\ ~shown /\ ~saved /\ ~files.plot.exists
        /\ (files.db.exists /\ files.kegg.exists) =>
              /\ err = PrepareMsg
              /\ files.merged.exists
              /\ files.merged.rows = merged_df

C6_Witness ==
    /\ kpc = "ended"
    /\ ~files.selected.exists
    /\ err = PrepareMsg
    /\ files.merged.exists /\ Len(files.merged.rows) >= 2

\* C7: enrichment IDs are normalized by removing 'ko' and zero-padding to 5
\* characters, database IDs by zero-padding to 5 characters; the merged output
\* has one row per pair of an enrichment row and a database row with equal
\* normalized IDs and no other row, in descending order of 'No. of Seqs'.
C7_MergedRows ==
    files.merged.exists =>
        LET out == files.merged.rows
        IN  /\ \A k \in 1..Len(me_1_kegg.rows) :
                  me_1_kegg.rows[k].PathwayID = NormKegg(files.kegg.rows[k].PathwayID)
            /\ \A k \in 1..Len(kegg_db.rows) :
                  kegg_db.rows[k].PathwayID = NormDb(files.db.rows[k].PathwayID)
            /\ Len(out) = Cardinality(MatchingPairs)
            /\ \A p \in MatchingPairs :
                  Cardinality({k \in 1..Len(out) : out[k] = ExpectedRow(p)})
                    = Cardinality({q \in MatchingPairs : ExpectedRow(q) = ExpectedRow(p)})
            /\ \A k \in 1..(Len(out) - 1) : out[k].Seqs >= out[k + 1].Seqs

C7_Witness ==
    /\ files.merged.exists
    /\ Len(files.merged.rows) >= 2
    /\ files.merged.rows[1].Seqs > files.merged.rows[Len(files.merged.rows)].Seqs
    /\ files.kegg.rows[1].Seqs < files.kegg.rows[Len(files.kegg.rows)].Seqs
    /\ \E k \in 1..Len(files.kegg.rows) : files.kegg.rows[k].PathwayID = Ko20
    /\ \E k \in 1..Len(files.db.rows) : files.db.rows[k].PathwayID = Ko00010
    /\ Cardinality(MatchingPairs) < Len(files.kegg.rows) * Len(files.db.rows)

====
